---- MODULE Spec2Model ----
(***************************************************************************)
(* gwf: `new` creates a branch whose name encodes type/scope/message and   *)
(* stores the free-text message in <home>/.gwf/<slug(branch)>; `finish`    *)
(* replays that message into a commit and runs the post-commit command.    *)
(*                                                                         *)
(* Strings are sequences of one-character strings.  The sources hold two   *)
(* drafts of both operations: src/src/main.rs (its own new_branch and      *)
(* finish) and src/src/commands/{nfb,finish}.rs; `build` says which pair   *)
(* the running binary is made of.                                          *)
(***************************************************************************)
EXTENDS Naturals, Sequences, FiniteSets, TLC

VARIABLES
    build,          \* "main" or "commands": which draft of new/finish runs
    refs,           \* refs/heads: branch name -> commit id
    head,           \* HEAD: the current branch name
    checked_out,    \* the branch the working tree was last checked out for
    commits,        \* the object store: commit id -> [parent, message]
    store,          \* <home>/.gwf: file name -> file content
    ret,            \* the last invocation: its arguments and what it did
    calls           \* how many invocations have run

vars == <<build, refs, head, checked_out, commits, store, ret, calls>>

\* ------------------------------------------------------------------ bounds
MaxCalls == 3

\* ------------------------------------------------------------------ inputs
Types == { <<"A">>, <<>> }
Scopes == { <<>>, <<"A">> }
Messages == { <<"A">>, <<"A", " ", "A">> }
InitialBranch == <<"a", "-", "a">>

NewFailures == {"none", "open", "head", "set_head", "checkout_head", "create",
                "writeln"}
FinishFailures == {"none", "open", "index", "signature", "head", "read",
                   "commit", "workdir"}
ConfigFiles == {"absent", "unreadable", "unparseable", "ok"}
CommandOutcomes == {"spawn_failed", "failed", "success"}

\* ------------------------------------------------------------------ text
Lower == {"a"}
Upper == {"A"}
to_lower(x) == IF x = "A" THEN "a" ELSE x

RECURSIVE push_chars(_, _, _)
push_chars(s, slug, prev_is_dash) ==
    IF s = <<>> THEN slug
    ELSE LET x == Head(s) IN
         IF x \in Lower THEN push_chars(Tail(s), Append(slug, x), FALSE)
         ELSE IF x \in Upper
              THEN push_chars(Tail(s), Append(slug, to_lower(x)), FALSE)
         ELSE IF ~prev_is_dash
              THEN push_chars(Tail(s), Append(slug, "-"), TRUE)
         ELSE push_chars(Tail(s), slug, TRUE)

slugify(s) ==
    LET string == push_chars(s, <<>>, TRUE) IN
    IF string # <<>> /\ string[Len(string)] = "-"
    THEN SubSeq(string, 1, Len(string) - 1)
    ELSE string

RECURSIVE split_from(_, _, _)
split_from(s, cur, parts) ==
    IF s = <<>> THEN Append(parts, cur)
    ELSE IF Head(s) = "/" THEN split_from(Tail(s), <<>>, Append(parts, cur))
    ELSE split_from(Tail(s), Append(cur, Head(s)), parts)

split(s) == split_from(s, <<>>, <<>>)

RECURSIVE join(_)
join(parts) ==
    IF parts = <<>> THEN <<>>
    ELSE IF Len(parts) = 1 THEN parts[1]
    ELSE parts[1] \o <<"/">> \o join(Tail(parts))

\* ------------------------------------------------------------------ codec
branch_name(type_, scope, message) ==
    IF scope = <<>>
    THEN slugify(type_) \o <<"/">> \o slugify(message)
    ELSE slugify(type_) \o <<"/">> \o slugify(scope) \o <<"/">> \o slugify(message)

main_branch_name(type_, scope, message) ==
    slugify(type_) \o <<"/">> \o slugify(scope) \o <<"/">> \o slugify(message)

decode(current_branch) ==
    LET parts == split(current_branch) IN
    IF Len(parts) = 2 THEN [ok |-> TRUE, type_ |-> parts[1], scope |-> <<>>]
    ELSE IF Len(parts) = 3 THEN [ok |-> TRUE, type_ |-> parts[1], scope |-> parts[2]]
    ELSE [ok |-> FALSE, type_ |-> <<>>, scope |-> <<>>]

main_decode(current_branch) ==
    LET parts == split(current_branch) IN
    IF Len(parts) # 3 THEN [ok |-> FALSE, type_ |-> <<>>, scope |-> <<>>]
    ELSE [ok |-> TRUE, type_ |-> parts[1], scope |-> parts[2]]

commit_message(type_, scope, message) ==
    IF scope = <<>>
    THEN type_ \o <<":", " ">> \o message
    ELSE type_ \o <<"(">> \o scope \o <<")", ":", " ">> \o message

main_commit_message(type_, scope, message) ==
    type_ \o <<"(">> \o scope \o <<")", ":", " ">> \o message

\* ------------------------------------------------------------------ store
message_file(branch) == slugify(branch)

\* A create_dir_all that makes the directory anew, losing what it held.
create_dir_all_fresh(files) == [f \in {} |-> <<>>]

\* fs::create_dir_all: the directory exists afterwards, its files untouched
create_dir_all(files) == files

\* A File::create that does not truncate the file it finds.
file_create_keep(files, name) ==
    [f \in DOMAIN files \cup {name} |-> IF f \in DOMAIN files THEN files[f] ELSE <<>>]

\* fs::File::create: the file exists afterwards and is empty
file_create(files, name) ==
    [f \in DOMAIN files \cup {name} |-> IF f = name THEN <<>> ELSE files[f]]

writeln(files, name, message) ==
    [files EXCEPT ![name] = files[name] \o message \o <<"\n">>]

put(files, branch, message) ==
    LET config_file == message_file(branch) IN
    writeln(file_create(create_dir_all(files), config_file), config_file, message)

\* A read that takes a missing file for an empty one.
read_to_string_or_default(files, name) ==
    IF name \in DOMAIN files
    THEN [ok |-> TRUE, text |-> files[name]]
    ELSE [ok |-> TRUE, text |-> <<>>]

\* fs::read_to_string
read_to_string(files, name) ==
    IF name \in DOMAIN files
    THEN [ok |-> TRUE, text |-> files[name]]
    ELSE [ok |-> FALSE, text |-> <<>>]

get(files, branch) == read_to_string(files, message_file(branch))

\* ------------------------------------------------------------------ refs
\* The name the repository files a new branch under; <<>> when it refuses it.
reference_name(name, normalize) ==
    LET parts == split(name)
        kept == SelectSeq(parts, LAMBDA p : p # <<>>)
    IN  IF kept = parts THEN name
        ELSE IF kept = <<>> \/ parts[Len(parts)] = <<>> THEN <<>>
        ELSE IF normalize THEN join(kept)
        ELSE <<>>

\* repo.branch with force = true: an existing branch is moved, not refused.
branch_force(rs, refname, target) ==
    IF refname = <<>> THEN [err |-> "InvalidName", refs |-> rs]
    ELSE [err |-> "none", refs |-> (refname :> target) @@ rs]

\* repo.branch(name, target, force = false)
branch(rs, refname, target) ==
    IF refname = <<>> THEN [err |-> "InvalidName", refs |-> rs]
    ELSE IF refname \in DOMAIN rs THEN [err |-> "BranchAlreadyExists", refs |-> rs]
    ELSE [err |-> "none", refs |-> (refname :> target) @@ rs]

\* repo.commit(None, ...): the commit is written and no ref is moved to it.
commit_no_update_ref(rs, current, id) == rs

\* repo.commit(Some("HEAD"), ...): the new commit becomes the branch's tip
commit_update_ref(rs, current, id) == [rs EXCEPT ![current] = id]

\* ------------------------------------------------------------------ state
State == [refs |-> refs, head |-> head, checked_out |-> checked_out,
          commits |-> commits, store |-> store]

Ret(op, err) ==
    [op |-> op, err |-> err, type_ |-> <<>>, scope |-> <<>>, message |-> <<>>,
     branch_name |-> <<>>, commit |-> 0, repo_cfg |-> "", home_cfg |-> "",
     cfg |-> "none", cmd |-> "not_run", pre |-> State]

\* ------------------------------------------------------------------ new
\* Everything new_branch does once the branch name is computed; `fail` is
\* the step the environment makes fail.
new_branch_run(st, name, message, fail, normalize) ==
    LET refname == reference_name(name, normalize)
        parent == st.refs[st.head]
        config_file == message_file(name)
        made == branch(st.refs, refname, parent)
        branched == [st EXCEPT !.refs = made.refs]
        switched == [branched EXCEPT !.head = refname]
        checked == [switched EXCEPT !.checked_out = refname]
        created == [checked EXCEPT
                       !.store = file_create(create_dir_all(checked.store), config_file)]
        written == [checked EXCEPT !.store = put(checked.store, name, message)]
    IN  IF fail \in {"open", "head"} THEN [st |-> st, err |-> fail]
        ELSE IF made.err # "none" THEN [st |-> st, err |-> made.err]
        ELSE IF fail = "set_head" THEN [st |-> branched, err |-> fail]
        ELSE IF fail = "checkout_head" THEN [st |-> switched, err |-> fail]
        ELSE IF fail = "create" THEN [st |-> checked, err |-> fail]
        ELSE IF fail = "writeln" THEN [st |-> created, err |-> fail]
        ELSE [st |-> written, err |-> "none"]

\* Whether the git library collapses the empty segments of a ref name or
\* refuses the name is not decided by these sources: either may happen.
Normalizations(name) ==
    IF reference_name(name, TRUE) # reference_name(name, FALSE)
    THEN BOOLEAN ELSE {FALSE}

new_branch ==
    \E type_ \in Types, scope \in Scopes, message \in Messages, fail \in NewFailures :
        LET name == IF build = "main"
                    THEN main_branch_name(type_, scope, message)
                    ELSE branch_name(type_, scope, message)
        IN  \E normalize \in Normalizations(name) :
            LET r == new_branch_run(State, name, message, fail, normalize)
            IN
            /\ calls < MaxCalls
            /\ calls' = calls + 1
            /\ refs' = r.st.refs
            /\ head' = r.st.head
            /\ checked_out' = r.st.checked_out
            /\ store' = r.st.store
            /\ ret' = [Ret("new", r.err) EXCEPT
                          !.type_ = type_, !.scope = scope, !.message = message,
                          !.branch_name = IF fail = "open" THEN <<>> ELSE name]
            /\ UNCHANGED <<build, commits>>

\* ------------------------------------------------------------------ finish
\* A loader that falls back to <home>/.gwf whenever the repository's file
\* is not usable.
config_content_fallback(repo_cfg, home_cfg) ==
    IF repo_cfg = "ok"
    THEN [cfg |-> "repo", content |-> repo_cfg]
    ELSE [cfg |-> "home", content |-> home_cfg]

\* Which gwf.toml is read and what reading it gives.
config_content(repo_cfg, home_cfg) ==
    IF repo_cfg # "absent"
    THEN [cfg |-> "repo", content |-> repo_cfg]
    ELSE [cfg |-> "home", content |-> home_cfg]

post_commit(content, outcome) ==
    IF content # "ok" THEN [err |-> "none", cmd |-> "not_run"]
    ELSE IF outcome = "spawn_failed" THEN [err |-> "spawn", cmd |-> outcome]
    ELSE [err |-> "none", cmd |-> outcome]

finish_run(bld, st, fail, repo_cfg, home_cfg, outcome) ==
    LET current_branch == st.head
        parent == st.refs[st.head]
        file == read_to_string(st.store, message_file(current_branch))
        dec == IF bld = "main" THEN main_decode(current_branch)
               ELSE decode(current_branch)
        text == IF bld = "main"
                THEN main_commit_message(dec.type_, dec.scope, file.text)
                ELSE commit_message(dec.type_, dec.scope, file.text)
        commit_id == Len(st.commits) + 1
        committed == [st EXCEPT
                         !.commits = Append(st.commits,
                                            [parent |-> parent, message |-> text]),
                         !.refs = commit_update_ref(st.refs, st.head, commit_id)]
        config == config_content(repo_cfg, home_cfg)
        post == post_commit(config.content, outcome)
        early(e) == [st |-> st,
                     ret |-> [Ret("finish", e) EXCEPT !.branch_name = current_branch,
                                                      !.message = file.text]]
        late(e) == [st |-> committed,
                    ret |-> [Ret("finish", e) EXCEPT !.branch_name = current_branch,
                                                     !.message = file.text,
                                                     !.commit = commit_id]]
    IN  IF fail \in {"open", "index", "signature", "head"}
        THEN [st |-> st, ret |-> Ret("finish", fail)]
        ELSE IF ~file.ok THEN early("NotFound")
        ELSE IF fail = "read" THEN early("read")
        ELSE IF ~dec.ok THEN early("InvalidBranchFormat")
        ELSE IF fail = "commit" THEN early("commit")
        ELSE IF fail = "workdir" THEN late("workdir")
        ELSE [st |-> committed,
              ret |-> [late(post.err).ret EXCEPT
                          !.repo_cfg = repo_cfg, !.home_cfg = home_cfg,
                          !.cfg = config.cfg, !.cmd = post.cmd]]

\* The config files and the command's outcome are read only once the commit
\* is made.
reaches_config(bld, st, fail) ==
    /\ fail = "none"
    /\ read_to_string(st.store, message_file(st.head)).ok
    /\ IF bld = "main" THEN main_decode(st.head).ok ELSE decode(st.head).ok

finish ==
    \E fail \in FinishFailures :
    \E repo_cfg \in IF reaches_config(build, State, fail) THEN ConfigFiles ELSE {"absent"},
       home_cfg \in IF reaches_config(build, State, fail) THEN ConfigFiles ELSE {"absent"} :
    \E outcome \in IF config_content(repo_cfg, home_cfg).content = "ok"
                    THEN CommandOutcomes ELSE {"success"} :
        LET r == finish_run(build, State, fail, repo_cfg, home_cfg, outcome)
        IN  /\ calls < MaxCalls
            /\ calls' = calls + 1
            /\ refs' = r.st.refs
            /\ commits' = r.st.commits
            /\ store' = r.st.store
            /\ ret' = r.ret
            /\ UNCHANGED <<build, head, checked_out>>

\* ------------------------------------------------------------------ spec
Init ==
    /\ build \in {"main", "commands"}
    /\ refs = (InitialBranch :> 1)
    /\ head = InitialBranch
    /\ checked_out = InitialBranch
    /\ commits = << [parent |-> 0, message |-> <<>>] >>
    /\ store = [f \in {} |-> <<>>]
    /\ ret = Ret("none", "none")
    /\ calls = 0

Next == new_branch \/ finish

Spec == Init /\ [][Next]_vars

\* ------------------------------------------------------------------ the store alone
\* The side-message store driven directly: the write of new_branch and the
\* read of finish, for any branch identifier and any single-line text.
BranchIds == { <<"a", "/", "a">>, <<"a", "/", "a", "-", "a">>,
               <<"a", "/", "a", "/", "a">>, <<"a", "-", "a">> }
Texts == Messages \cup { <<" ", "a">>, <<>> }

store_put ==
    \E b \in BranchIds, text \in Texts :
        /\ store' = put(store, b, text)
        /\ ret' = [Ret("put", "none") EXCEPT !.branch_name = b, !.message = text]
        /\ UNCHANGED <<build, refs, head, checked_out, commits, calls>>

store_get ==
    \E b \in BranchIds :
        LET file == get(store, b) IN
        /\ ret' = [Ret("get", IF file.ok THEN "none" ELSE "NotFound") EXCEPT
                      !.branch_name = b, !.message = file.text]
        /\ UNCHANGED <<build, refs, head, checked_out, commits, store, calls>>

NextStore == store_put \/ store_get

SpecStore == Init /\ [][NextStore]_vars

\* ------------------------------------------------------------------ claims
\* The conventional-commit text for the arguments given to `new`.
Conventional(type_, scope, message) ==
    IF scope # <<>>
    THEN slugify(type_) \o <<"(">> \o slugify(scope) \o <<")", ":", " ">> \o message
    ELSE slugify(type_) \o <<":", " ">> \o message

\* What stopped `finish` before it looked at the branch or the store.
FinishEnvFailures == {"open", "index", "signature", "head"}

\* C1: a finish that directly follows a successful new (the new branch is
\* current, its pending message untouched) creates a commit whose message is
\* exactly slug(type)(slug(scope)): message, or slug(type): message when the
\* scope is empty, with nothing before or after it.
C1_CommitMessageExact ==
    [][(/\ ret.op = "new" /\ ret.err = "none"
        /\ ret'.op = "finish" /\ ret'.commit # 0)
       => commits'[ret'.commit].message
            = Conventional(ret.type_, ret.scope, ret.message)]_vars

\* C2: the branch name `new` computes is slug(type)/slug(message) with 2
\* segments when the scope is empty and slug(type)/slug(scope)/slug(message)
\* with 3 segments otherwise, and splitting it on "/" gives back slug(type)
\* first and slug(scope) as the scope.
C2_BranchNameShape ==
    (ret.op = "new" /\ ret.err # "open") =>
        LET parts == split(ret.branch_name) IN
        /\ ret.branch_name =
             IF ret.scope = <<>>
             THEN slugify(ret.type_) \o <<"/">> \o slugify(ret.message)
             ELSE slugify(ret.type_) \o <<"/">> \o slugify(ret.scope)
                    \o <<"/">> \o slugify(ret.message)
        /\ Len(parts) = IF ret.scope = <<>> THEN 2 ELSE 3
        /\ parts[1] = slugify(ret.type_)
        /\ (IF Len(parts) = 3 THEN parts[2] ELSE <<>>) = slugify(ret.scope)

\* C3: whenever the current branch name does not split on "/" into exactly 2
\* or 3 segments, finish fails with InvalidBranchFormat whatever the store
\* holds, and creates no commit.
C3_InvalidFormatWhateverStore ==
    (/\ ret.op = "finish"
     /\ ret.err \notin FinishEnvFailures \cup {"read"}
     /\ Len(split(ret.pre.head)) \notin {2, 3})
    => /\ ret.err = "InvalidBranchFormat"
       /\ ret.commit = 0
       /\ refs = ret.pre.refs
       /\ head = ret.pre.head

\* C4: when the store holds no file for the current branch, finish fails with
\* NotFound and creates no commit: refs, HEAD, the commits and the store are
\* what they were before the call.
C4_MissingMessageNotFound ==
    (/\ ret.op = "finish"
     /\ ret.err \notin FinishEnvFailures
     /\ slugify(ret.pre.head) \notin DOMAIN ret.pre.store)
    => /\ ret.err = "NotFound"
       /\ ret.commit = 0
       /\ refs = ret.pre.refs
       /\ head = ret.pre.head
       /\ commits = ret.pre.commits
       /\ store = ret.pre.store

\* C4 witness: finish ran on a well-formed branch that has no pending file.
C4_Witness ==
    /\ ret.op = "finish" /\ ret.err = "NotFound"
    /\ Len(split(head)) = 3
    /\ slugify(head) \notin DOMAIN store

\* C5: what is read for b after the store wrote text for b is text followed
\* by one newline, also when b had an earlier, different text: nothing of the
\* earlier text is left.
C5_ReadAfterWrite ==
    ret.op = "put" =>
        /\ slugify(ret.branch_name) \in DOMAIN store
        /\ store[slugify(ret.branch_name)] = ret.message \o <<"\n">>
        /\ get(store, ret.branch_name).ok
        /\ get(store, ret.branch_name).text = ret.message \o <<"\n">>

\* C5 witness: a write for b replaced a different text written for b before.
C5_Witness ==
    /\ ret.op = "put"
    /\ slugify(ret.branch_name) \in DOMAIN ret.pre.store
    /\ ret.pre.store[slugify(ret.branch_name)] # ret.message \o <<"\n">>
    /\ ret.pre.store[slugify(ret.branch_name)] # <<"\n">>
    /\ get(store, ret.branch_name).text = ret.message \o <<"\n">>

\* C6: two distinct branches that `new` creates are stored in distinct files,
\* and creating the second never changes the pending message finish reads for
\* the first.
C6_DistinctBranchesDistinctFiles ==
    [][(/\ ret.op = "new" /\ ret.err = "none"
        /\ ret'.op = "new" /\ ret'.err = "none"
        /\ calls' = calls + 1)
       => /\ head' # head
          /\ slugify(ret'.branch_name) # slugify(ret.branch_name)
          /\ get(store', head) = get(store, head)]_vars

\* C7: once finish has created the commit, HEAD points at it when finish
\* returns, whatever the config files hold and whatever the post-commit
\* command did.
C7_CommitIsFinal ==
    (ret.op = "finish" /\ ret.commit # 0) =>
        /\ head = ret.pre.head
        /\ refs[head] = ret.commit
        /\ ret.commit = Len(ret.pre.commits) + 1
        /\ Len(commits) = ret.commit
        /\ commits[ret.commit].parent = ret.pre.refs[ret.pre.head]
        /\ SubSeq(commits, 1, Len(ret.pre.commits)) = ret.pre.commits

\* C7 witness: the post-commit command could not be started, finish returned
\* that error, and the commit stands.
C7_Witness ==
    /\ ret.op = "finish" /\ ret.err = "spawn" /\ ret.commit # 0
    /\ refs[head] = ret.commit

Added == DOMAIN refs \ DOMAIN ret.pre.refs

\* The last `new` created exactly one branch, at the commit HEAD was on.
BranchMade ==
    /\ Cardinality(Added) = 1
    /\ \A b \in Added : refs[b] = ret.pre.refs[ret.pre.head]
    /\ \A b \in DOMAIN ret.pre.refs : refs[b] = ret.pre.refs[b]

\* The store is as before the call except that `name` now holds `content`.
StoreIsPreWith(name, content) ==
    /\ DOMAIN store = DOMAIN ret.pre.store \cup {name}
    /\ store[name] = content
    /\ \A f \in DOMAIN ret.pre.store : f # name => store[f] = ret.pre.store[f]

\* C9: new runs open, resolve HEAD, create the branch, switch HEAD, check
\* out, write the message, in that order; a failing step stops the later ones
\* and undoes none of the earlier ones.  An existing branch name fails the
\* call with HEAD, the working tree and the store unchanged; a failing write
\* leaves the branch created and checked out and the message not stored.
C9_NewStepOrder ==
    ret.op = "new" =>
        /\ commits = ret.pre.commits
        /\ (ret.branch_name \in DOMAIN ret.pre.refs /\ ret.err \notin {"open", "head"})
              => ret.err = "BranchAlreadyExists"
        /\ ret.err \in {"open", "head", "InvalidName", "BranchAlreadyExists"}
              => /\ refs = ret.pre.refs
                 /\ head = ret.pre.head
                 /\ checked_out = ret.pre.checked_out
                 /\ store = ret.pre.store
        /\ ret.err = "set_head"
              => /\ BranchMade
                 /\ head = ret.pre.head
                 /\ checked_out = ret.pre.checked_out
                 /\ store = ret.pre.store
        /\ ret.err = "checkout_head"
              => /\ BranchMade
                 /\ head \in Added
                 /\ checked_out = ret.pre.checked_out
                 /\ store = ret.pre.store
        /\ ret.err = "create"
              => /\ BranchMade
                 /\ head \in Added
                 /\ checked_out = head
                 /\ store = ret.pre.store
        /\ ret.err = "writeln"
              => /\ BranchMade
                 /\ head \in Added
                 /\ checked_out = head
                 /\ StoreIsPreWith(slugify(ret.branch_name), <<>>)
        /\ ret.err = "none"
              => /\ BranchMade
                 /\ head \in Added
                 /\ checked_out = head
                 /\ StoreIsPreWith(slugify(ret.branch_name),
                                   ret.message \o <<"\n">>)

\* C9 witness: the write failed after the branch was created and checked out.
C9_Witness ==
    /\ ret.op = "new" /\ ret.err = "create"
    /\ head \in Added /\ checked_out = head
    /\ slugify(head) \notin DOMAIN store

\* C10: no call ever removes a file of the store.
C10_StoreOnlyGrows ==
    DOMAIN ret.pre.store \subseteq DOMAIN store

\* C10 witness: a finish that committed left its branch's pending file there.
C10_Witness ==
    /\ ret.op = "finish" /\ ret.commit # 0 /\ ret.err = "none"
    /\ slugify(head) \in DOMAIN store
    /\ Cardinality(DOMAIN store) > 0

====
